---- MODULE Spec2Model ----
(***************************************************************************)
(* Model of the wave-generation core of the coastal engineering platform:  *)
(*   src/src/waves/parameters.rs  WaveParameters                           *)
(*   src/src/waves/dispersion.rs  DispersionSolver (Newton-Raphson)        *)
(*   src/src/waves/velocity.rs    VelocityCalculator                       *)
(*   src/src/waves/boundary.rs    BoundaryApplicator                       *)
(*                                                                         *)
(* f64 quantities are fixed-point integers: the integer n stands for the   *)
(* real n / SCALE.  Sums and differences are exact, products and quotients *)
(* are truncated toward zero to the grid.  A comparison of a grid value    *)
(* with a threshold below the grid's resolution (1e-6, 1e-10) is exact:    *)
(* |n / SCALE| > 1e-6 iff n # 0.                                           *)
(***************************************************************************)
EXTENDS Integers, Sequences, FiniteSets, TLC

VARIABLES
    \* ---- one call of DispersionSolver::solve_wave_parameters ----
    pc,          \* position in solve_wave_parameters
    solver,      \* the DispersionSolver: [max_iterations, tolerance, gravity]
    args,        \* the call's arguments [h, t, d]
    params,      \* the local `params` (a WaveParameters) or NoParams
    k,           \* the local `k` of solve_wave_number
    iteration,   \* loop bodies of solve_wave_number entered so far
    trace,       \* what each loop body did: "Continue", "Converged", "DerivativeUnderflow"
    log,         \* the steps of solve_wave_parameters that ran, in order
    result,      \* what the call returned: [tag, params], or NoResult while running
    \* ---- a BoundaryApplicator and the caller's two grids ----
    wave_params,          \* velocity_calc.params
    current_time,
    generation_position,
    enabled,
    velocities,           \* caller's grid, a sequence
    surface_elevations,   \* caller's grid, a sequence
    op,                   \* the name of the last driver operation
    arg,                  \* its f64 argument (x, time, dt, ramp_duration), else 0
    snapshot,             \* the BoundaryStatus the caller last took
    \* ---- one call of a function without side effects ----
    called,               \* the function and its arguments: a record with field fn
    returned,             \* the value it returned
    \* ---- one call of WaveChannelApp::calculate_wavelength_adaptive ----
    gui_pc,               \* position in calculate_wavelength_adaptive
    gui_args,             \* the call's arguments [period, depth, gravity]
    wavelength,           \* the local `wavelength`, the shallow water estimate
    regime,               \* the local `regime`
    l_new,                \* the local `l_new`
    changes,              \* |l_new - l_old| of each loop body run so far
    gui_result            \* the wavelength returned, or NoWavelength

solverVars == <<pc, solver, args, params, k, iteration, trace, log, result>>
driverVars == <<wave_params, current_time, generation_position, enabled,
                velocities, surface_elevations, op, arg, snapshot>>
callVars == <<called, returned>>
guiVars == <<gui_pc, gui_args, wavelength, regime, l_new, changes, gui_result>>
vars == <<pc, solver, args, params, k, iteration, trace, log, result,
          wave_params, current_time, generation_position, enabled,
          velocities, surface_elevations, op, arg, snapshot,
          called, returned,
          gui_pc, gui_args, wavelength, regime, l_new, changes, gui_result>>

----------------------------------------------------------------------------
(* f64 arithmetic on the fixed-point grid *)

SCALE == 1000

Abs(x) == IF x < 0 THEN -x ELSE x
Sgn(x) == IF x < 0 THEN -1 ELSE 1
Max(a, b) == IF a >= b THEN a ELSE b

\* a * b, truncated toward zero (split so that the intermediate stays small)
Mul(a, b) ==
    Sgn(a) * Sgn(b) *
      ((Abs(a) \div SCALE) * Abs(b) + ((Abs(a) % SCALE) * Abs(b)) \div SCALE)

\* a / b for b # 0, truncated toward zero
Div(a, b) ==
    Sgn(a) * Sgn(b) *
      ((Abs(a) \div Abs(b)) * SCALE + ((Abs(a) % Abs(b)) * SCALE) \div Abs(b))

PI == 3142
TwoPi == Mul(2 * SCALE, PI)
HalfPi == Div(PI, 2 * SCALE)

\* cos on [0, pi/2]: (pi^2 - 4 y^2) / (pi^2 + y^2), which is 1 at 0 and 0 at pi/2
CosQuarter(y) ==
    Div(Mul(PI, PI) - 4 * Mul(y, y), Mul(PI, PI) + Mul(y, y))

\* f64::cos: even, of period 2 pi, odd about pi/2
Cos(x) ==
    LET r == Abs(x) % TwoPi
        a == IF r > PI THEN TwoPi - r ELSE r
    IN  IF a > HalfPi THEN -CosQuarter(PI - a) ELSE CosQuarter(a)

\* f64::tanh for x >= 0: x (27 + x^2) / (27 + 9 x^2), which reaches 1 at 3
Tanh(x) ==
    IF x >= 3 * SCALE THEN SCALE
    ELSE Div(Mul(x, 27 * SCALE + Mul(x, x)), 27 * SCALE + 9 * Mul(x, x))

----------------------------------------------------------------------------
(* parameters.rs : WaveParameters *)

NoParams == [k |-> 0, omega |-> 0, c |-> 0, h |-> 0, d |-> 0, period |-> 0,
             wavelength |-> 0]

\* the breaking criterion's 0.78
BreakingLimit == 780

Ok(p) == [tag |-> "Ok", params |-> p]
Err(e) == [tag |-> e, params |-> NoParams]

\* mutant: the breaking test with >= in place of >
new_BreakingInclusive(wave_height, wave_period, water_depth) ==
    IF wave_height <= 0 THEN Err("InvalidInput")
    ELSE IF wave_period <= 0 THEN Err("InvalidInput")
    ELSE IF water_depth <= 0 THEN Err("InvalidInput")
    ELSE IF Div(wave_height, water_depth) >= BreakingLimit THEN Err("BreakingRisk")
    ELSE Ok([k |-> 0, omega |-> Div(TwoPi, wave_period), c |-> 0,
             h |-> wave_height, d |-> water_depth, period |-> wave_period,
             wavelength |-> 0])

\* mutant: the record starts from the wave number 1 rad/m in place of the
\* sentinel 0
new_UnitWaveNumber(wave_height, wave_period, water_depth) ==
    IF wave_height <= 0 THEN Err("InvalidInput")
    ELSE IF wave_period <= 0 THEN Err("InvalidInput")
    ELSE IF water_depth <= 0 THEN Err("InvalidInput")
    ELSE IF Div(wave_height, water_depth) > BreakingLimit THEN Err("BreakingRisk")
    ELSE Ok([k |-> SCALE, omega |-> Div(TwoPi, wave_period),
             c |-> Div(TwoPi, wave_period),
             h |-> wave_height, d |-> water_depth, period |-> wave_period,
             wavelength |-> TwoPi])

\* WaveParameters::new
new(wave_height, wave_period, water_depth) ==
    IF wave_height <= 0 THEN Err("InvalidInput")
    ELSE IF wave_period <= 0 THEN Err("InvalidInput")
    ELSE IF water_depth <= 0 THEN Err("InvalidInput")
    ELSE IF Div(wave_height, water_depth) > BreakingLimit THEN Err("BreakingRisk")
    ELSE Ok([k |-> 0, omega |-> Div(TwoPi, wave_period), c |-> 0,
             h |-> wave_height, d |-> water_depth, period |-> wave_period,
             wavelength |-> 0])

\* mutant: the wavelength is left at its sentinel
update_from_dispersion_NoWavelength(p, wave_number) ==
    [p EXCEPT !.k = wave_number,
              !.c = Div(p.omega, wave_number)]

\* mutant: the phase speed is left at its sentinel
update_from_dispersion_NoSpeed(p, wave_number) ==
    [p EXCEPT !.k = wave_number,
              !.wavelength = Div(TwoPi, wave_number)]

\* WaveParameters::update_from_dispersion (wave_number # 0)
update_from_dispersion(p, wave_number) ==
    [p EXCEPT !.k = wave_number,
              !.c = Div(p.omega, wave_number),
              !.wavelength = Div(TwoPi, wave_number)]

amplitude(p) == Div(p.h, 2 * SCALE)

\* WaveParameters::validate; |c - omega/k| > 1e-6 is a difference of grid
\* values, so it exceeds 1e-6 iff it is not 0
validate(p) ==
    IF p.k <= 0 THEN "InvariantViolation"
    ELSE IF p.omega <= 0 THEN "InvariantViolation"
    ELSE IF p.c <= 0 THEN "InvariantViolation"
    ELSE IF Abs(p.c - Div(p.omega, p.k)) > 0 THEN "InvariantViolation"
    ELSE "Ok"

----------------------------------------------------------------------------
(* dispersion.rs : DispersionSolver *)

\* Default::default(): gravity 9.81, max_iterations 100, and tolerance 1e-10,
\* which on the grid is its smallest positive value (|x| < 1e-10 iff |x| < 1)
Gravity == 9810
DefaultMaxIterations == 100
DefaultTolerance == 1

\* DispersionSolver::new
DefaultSolver ==
    [max_iterations |-> DefaultMaxIterations, tolerance |-> DefaultTolerance,
     gravity |-> Gravity]

\* DispersionSolver::with_params
with_params(max_iterations, tolerance, gravity) ==
    [max_iterations |-> max_iterations, tolerance |-> tolerance,
     gravity |-> gravity]

\* mutant: the shallow water relation, f(k) = omega^2 - g k (kd)
dispersion_function_Shallow(s, kk, omega, depth) ==
    LET kd == Mul(kk, depth)
    IN  Mul(omega, omega) - Mul(Mul(s.gravity, kk), kd)

\* f(k) = omega^2 - g k (kd) / (1 + (kd)^2 / 4)
dispersion_function(s, kk, omega, depth) ==
    LET kd == Mul(kk, depth)
        dispersion_rhs == Div(Mul(Mul(s.gravity, kk), kd),
                              SCALE + Div(Mul(kd, kd), 4 * SCALE))
    IN  Mul(omega, omega) - dispersion_rhs

\* df/dk
dispersion_derivative(s, kk, omega, depth) ==
    LET kd == Mul(kk, depth)
        kd2 == Mul(kd, kd)
        denominator == SCALE + Div(kd2, 4 * SCALE)
        denominator2 == Mul(denominator, denominator)
        term1 == Div(kd, denominator)
        term2 == Div(Mul(Mul(kk, depth), SCALE - Div(kd2, 4 * SCALE)),
                     denominator2)
    IN  -Mul(s.gravity, term1 + term2)

\* the initial guess of solve_wave_number: the deep water wave number
initial_guess(s, omega) == Div(Mul(omega, omega), s.gravity)

\* mutant: the iterate is not clamped
newton_body_NoClamp(s, kk, omega, depth) ==
    LET f == dispersion_function(s, kk, omega, depth)
        df_dk == dispersion_derivative(s, kk, omega, depth)
    IN  IF Abs(df_dk) < s.tolerance
        THEN [kind |-> "DerivativeUnderflow", k |-> kk]
        ELSE LET k_new == kk - Div(f, df_dk)
             IN  IF Abs(k_new - kk) < s.tolerance
                 THEN [kind |-> "Converged", k |-> k_new]
                 ELSE [kind |-> "Continue", k |-> k_new]

\* one body of the loop of solve_wave_number, entered with the iterate kk:
\* what it does and the wave number it returns or continues with
newton_body(s, kk, omega, depth) ==
    LET f == dispersion_function(s, kk, omega, depth)
        df_dk == dispersion_derivative(s, kk, omega, depth)
    IN  IF Abs(df_dk) < s.tolerance
        THEN [kind |-> "DerivativeUnderflow", k |-> kk]
        ELSE LET k_new == kk - Div(f, df_dk)
             IN  IF Abs(k_new - kk) < s.tolerance
                 THEN [kind |-> "Converged", k |-> k_new]
                 ELSE [kind |-> "Continue", k |-> Max(k_new, s.tolerance)]

\* mutant: a loop that runs one body too many
loop_continues_OneTooMany(s, i) == i <= s.max_iterations

\* `for _iteration in 0..self.max_iterations`
loop_continues(s, i) == i < s.max_iterations

\* solve_wave_number as a function: the loop from body i with iterate kk
RECURSIVE newton_loop(_, _, _, _, _)
newton_loop(s, kk, omega, depth, i) ==
    IF ~loop_continues(s, i) THEN [kind |-> "NoConvergence", k |-> kk]
    ELSE LET b == newton_body(s, kk, omega, depth)
         IN  IF b.kind = "Continue"
             THEN newton_loop(s, b.k, omega, depth, i + 1)
             ELSE b

solve_wave_number(s, omega, depth) ==
    newton_loop(s, initial_guess(s, omega), omega, depth, 0)

\* DispersionSolver::validate_dispersion; the residual is a grid value, so
\* it exceeds 1e-6 iff it is not 0
validate_dispersion(s, kk, omega, depth) ==
    IF Abs(dispersion_function(s, kk, omega, depth)) > 0
    THEN "ResidualTooLarge" ELSE "Ok"

\* solve_wave_parameters as a function
solve_wave_parameters(s, wave_height, wave_period, water_depth) ==
    LET r == new(wave_height, wave_period, water_depth)
    IN  IF r.tag # "Ok" THEN r
        ELSE LET w == solve_wave_number(s, r.params.omega, water_depth)
             IN  IF w.kind # "Converged" THEN Err(w.kind)
                 ELSE LET p == update_from_dispersion(r.params, w.k)
                      IN  IF validate(p) # "Ok" THEN Err(validate(p))
                          ELSE Ok(p)

----------------------------------------------------------------------------
(* the calls the model makes *)

\* largest max_iterations a modelled solver is given
MaxIterations == 3

\* tolerances 0.1 and 1.0: coarse enough for the grid to follow the f64 run
Tolerances == {SCALE \div 10, SCALE}

\* with_params takes any gravity: the default one and, to drive the iterate
\* below the tolerance, its negative
Gravities == {Gravity, -Gravity}

Solvers == {with_params(m, tol, g) :
              m \in 0..MaxIterations, tol \in Tolerances, g \in Gravities}

\* wave heights, periods and depths, with the non-positive ones and both
\* sides of H/d = 0.78; every Newton run on them stays within 32-bit integers
Heights == {-500, 0, 300, 780, 1000}
Periods == {-1000, 0, 2000, 4000, 8000}
Depths == {-1000, 0, 500, 1000, 2000, 3000}

NoResult == [tag |-> "none", params |-> NoParams]

----------------------------------------------------------------------------
(* what is not part of a run: no function called, no GUI computation *)

NoCall == [fn |-> "none"]
NoWavelength == -1

CallIdle ==
    /\ called = NoCall
    /\ returned = 0

GuiIdle ==
    /\ gui_pc = "idle"
    /\ gui_args = [period |-> 0, depth |-> 0, gravity |-> 0]
    /\ wavelength = 0
    /\ regime = "none"
    /\ l_new = 0
    /\ changes = <<>>
    /\ gui_result = NoWavelength

----------------------------------------------------------------------------
(* a BoundaryApplicator is not yet part of a solver run *)

\* no BoundaryStatus has been taken
NoStatus ==
    [enabled |-> FALSE, current_time |-> 0, generation_position |-> 0,
     current_velocity |-> 0, current_elevation |-> 0,
     wave_parameters |-> NoParams]

DriverIdle ==
    /\ wave_params = NoParams
    /\ current_time = 0
    /\ generation_position = 0
    /\ enabled = TRUE
    /\ velocities = <<>>
    /\ surface_elevations = <<>>
    /\ op = "none"
    /\ arg = 0
    /\ snapshot = NoStatus

----------------------------------------------------------------------------
(* DispersionSolver::solve_wave_parameters, step by step *)

Init ==
    /\ pc = "idle"
    /\ solver \in Solvers
    /\ args = [h |-> 0, t |-> 0, d |-> 0]
    /\ params = NoParams
    /\ k = 0
    /\ iteration = 0
    /\ trace = <<>>
    /\ log = <<>>
    /\ result = NoResult
    /\ DriverIdle
    /\ CallIdle
    /\ GuiIdle

\* the caller invokes solve_wave_parameters(h, t, d)
Call ==
    /\ pc = "idle"
    /\ \E h \in Heights, t \in Periods, d \in Depths :
          args' = [h |-> h, t |-> t, d |-> d]
    /\ pc' = "new"
    /\ UNCHANGED <<solver, params, k, iteration, trace, log, result>>
    /\ UNCHANGED driverVars
    /\ UNCHANGED <<callVars, guiVars>>

\* let mut params = WaveParameters::new(...)?; and the initial guess
Construct ==
    /\ pc = "new"
    /\ LET r == new(args.h, args.t, args.d)
       IN  IF r.tag = "Ok"
           THEN /\ params' = r.params
                /\ k' = initial_guess(solver, r.params.omega)
                /\ pc' = "solve"
                /\ result' = result
           ELSE /\ result' = r
                /\ pc' = "done"
                /\ UNCHANGED <<params, k>>
    /\ log' = Append(log, "new")
    /\ UNCHANGED <<solver, args, iteration, trace>>
    /\ UNCHANGED driverVars
    /\ UNCHANGED <<callVars, guiVars>>

\* one body of the loop of solve_wave_number
NewtonIteration ==
    /\ pc = "solve"
    /\ loop_continues(solver, iteration)
    /\ LET b == newton_body(solver, k, params.omega, args.d)
       IN  /\ trace' = Append(trace, b.kind)
           /\ k' = b.k
           /\ pc' = CASE b.kind = "Continue" -> "solve"
                      [] b.kind = "Converged" -> "update"
                      [] OTHER -> "done"
           /\ result' = IF b.kind = "DerivativeUnderflow"
                        THEN Err("DerivativeUnderflow") ELSE result
           /\ log' = IF b.kind = "Continue" THEN log
                     ELSE Append(log, "solve_wave_number")
    /\ iteration' = iteration + 1
    /\ UNCHANGED <<solver, args, params>>
    /\ UNCHANGED driverVars
    /\ UNCHANGED <<callVars, guiVars>>

\* mutant: a loop that ran out hands its last iterate on as the wave number
NewtonExhausted_Continues ==
    /\ pc = "solve"
    /\ ~loop_continues(solver, iteration)
    /\ pc' = "update"
    /\ log' = Append(log, "solve_wave_number")
    /\ UNCHANGED <<solver, args, params, k, iteration, trace, result>>
    /\ UNCHANGED driverVars
    /\ UNCHANGED <<callVars, guiVars>>

\* the loop ran out: Err("Newton-Raphson failed to converge ...")
NewtonExhausted ==
    /\ pc = "solve"
    /\ ~loop_continues(solver, iteration)
    /\ result' = Err("NoConvergence")
    /\ pc' = "done"
    /\ log' = Append(log, "solve_wave_number")
    /\ UNCHANGED <<solver, args, params, k, iteration, trace>>
    /\ UNCHANGED driverVars
    /\ UNCHANGED <<callVars, guiVars>>

\* params.update_from_dispersion(wave_number)
UpdateFromDispersion ==
    /\ pc = "update"
    /\ params' = update_from_dispersion(params, k)
    /\ pc' = "validate"
    /\ log' = Append(log, "update_from_dispersion")
    /\ UNCHANGED <<solver, args, k, iteration, trace, result>>
    /\ UNCHANGED driverVars
    /\ UNCHANGED <<callVars, guiVars>>

\* mutant: the residual is checked as well before Ok(params)
Validate_WithResidualCheck ==
    /\ pc = "validate"
    /\ result' = IF validate(params) # "Ok" THEN Err(validate(params))
                 ELSE IF validate_dispersion(solver, params.k, params.omega,
                                             params.d) # "Ok"
                 THEN Err("ResidualTooLarge")
                 ELSE Ok(params)
    /\ pc' = "done"
    /\ log' = Append(log, "validate")
    /\ UNCHANGED <<solver, args, params, k, iteration, trace>>
    /\ UNCHANGED driverVars
    /\ UNCHANGED <<callVars, guiVars>>

\* params.validate()?; Ok(params)
Validate ==
    /\ pc = "validate"
    /\ result' = IF validate(params) = "Ok" THEN Ok(params)
                 ELSE Err(validate(params))
    /\ pc' = "done"
    /\ log' = Append(log, "validate")
    /\ UNCHANGED <<solver, args, params, k, iteration, trace>>
    /\ UNCHANGED driverVars
    /\ UNCHANGED <<callVars, guiVars>>

Next ==
    \/ Call
    \/ Construct
    \/ NewtonIteration
    \/ NewtonExhausted
    \/ UpdateFromDispersion
    \/ Validate

Spec == Init /\ [][Next]_vars

----------------------------------------------------------------------------
(* velocity.rs : VelocityCalculator *)

\* horizontal_velocity with the phase advancing at half the angular frequency
horizontal_velocity_HalfFrequency(p, x, time) ==
    LET phase == Mul(p.k, x) - Mul(p.omega, time) \div 2
        kd == Mul(p.k, p.d)
        velocity_coeff == IF kd < SCALE \div 10 THEN SCALE ELSE Tanh(kd)
    IN  Mul(Mul(Mul(amplitude(p), p.c), velocity_coeff), Cos(phase))

\* VelocityCalculator::horizontal_velocity
horizontal_velocity(p, x, time) ==
    LET phase == Mul(p.k, x) - Mul(p.omega, time)
        kd == Mul(p.k, p.d)
        velocity_coeff == IF kd < SCALE \div 10 THEN SCALE ELSE Tanh(kd)
    IN  Mul(Mul(Mul(amplitude(p), p.c), velocity_coeff), Cos(phase))

\* VelocityCalculator::surface_elevation
surface_elevation(p, x, time) ==
    LET phase == Mul(p.k, x) - Mul(p.omega, time)
    IN  Mul(amplitude(p), Cos(phase))

\* the result of validate_energy_conservation for the relative error e
EnergyResult(e, limit) ==
    [tag |-> IF e > limit THEN "EnergyDrift" ELSE "Ok", error |-> e]

\* the relative error |KE + PE - E| / E, E = g H^2 / 8 (gravity is the 9.81 of
\* VelocityCalculator::new)
energy_error(p, x, time) ==
    LET u == horizontal_velocity(p, x, time)
        eta == surface_elevation(p, x, time)
        kinetic_energy == Mul(Mul(SCALE \div 2, Mul(u, u)), p.d)
        potential_energy == Mul(Mul(SCALE \div 2, Gravity), Mul(eta, eta))
        total_energy == kinetic_energy + potential_energy
        expected_energy == Mul(Mul(SCALE \div 8, Gravity), Mul(p.h, p.h))
    IN  Div(Abs(total_energy - expected_energy), expected_energy)

\* mutant: the error may reach 1.0 before the check fails
validate_energy_conservation_Lenient(p, x, time) ==
    EnergyResult(energy_error(p, x, time), SCALE)

\* VelocityCalculator::validate_energy_conservation
validate_energy_conservation(p, x, time) ==
    EnergyResult(energy_error(p, x, time), SCALE \div 10)

----------------------------------------------------------------------------
(* boundary.rs : BoundaryApplicator; the reads are functions of its fields *)

\* mutant: the velocity is computed whether or not the driver is enabled
boundary_velocity_IgnoresEnabled == 
    horizontal_velocity(wave_params, generation_position, current_time)

\* BoundaryApplicator::boundary_velocity
boundary_velocity ==
    IF ~enabled THEN 0
    ELSE horizontal_velocity(wave_params, generation_position, current_time)

\* mutant: the elevation is the one computed when the driver was constructed
boundary_surface_elevation_AtConstruction ==
    IF ~enabled THEN 0
    ELSE surface_elevation(wave_params, 0, 0)

\* BoundaryApplicator::boundary_surface_elevation
boundary_surface_elevation ==
    IF ~enabled THEN 0
    ELSE surface_elevation(wave_params, generation_position, current_time)

\* mutant: the flux of a channel of unit depth
boundary_flux_UnitDepth ==
    IF ~enabled THEN 0
    ELSE Mul(boundary_velocity, SCALE)

\* BoundaryApplicator::boundary_flux
boundary_flux ==
    IF ~enabled THEN 0
    ELSE Mul(boundary_velocity, wave_params.d)

\* mutant: the duration is looked at before the enable flag
ramp_up_factor_DurationFirst(ramp_duration) ==
    IF ramp_duration <= 0 THEN SCALE
    ELSE IF ~enabled THEN 0
    ELSE IF current_time < ramp_duration
         THEN LET t_normalized == Div(current_time, ramp_duration)
              IN  Mul(SCALE \div 2, SCALE - Cos(Mul(PI, t_normalized)))
         ELSE SCALE

\* BoundaryApplicator::ramp_up_factor
ramp_up_factor(ramp_duration) ==
    IF ~enabled THEN 0
    ELSE IF ramp_duration <= 0 THEN SCALE
    ELSE IF current_time < ramp_duration
         THEN LET t_normalized == Div(current_time, ramp_duration)
              IN  Mul(SCALE \div 2, SCALE - Cos(Mul(PI, t_normalized)))
         ELSE SCALE

\* mutant: the end of the simulation is included
should_generate_waves_Inclusive(simulation_duration) ==
    enabled /\ current_time <= simulation_duration

\* BoundaryApplicator::should_generate_waves
should_generate_waves(simulation_duration) ==
    enabled /\ current_time < simulation_duration

----------------------------------------------------------------------------
(* the driver's callers *)

\* longest grid a caller passes
MaxGrid == 2

\* |current_time| stays within MaxTime seconds
MaxTime == 2

\* the waves a driver is given: those of the tests of boundary.rs and of
\* dispersion.rs, resolved by the default solver
WaveInputs == {<<500, 4000, 2000>>, <<1000, 8000, 20000>>}
ResolvedParams ==
    {solve_wave_parameters(DefaultSolver, w[1], w[2], w[3]).params : w \in WaveInputs}

Positions == {0, SCALE}
TimeSteps == {-SCALE, 0, SCALE}
Times == {0, 2 * SCALE}
RampDurations == {-SCALE, 0, 2 * SCALE}

\* what a grid cell holds before the driver writes it
Stale(i) == 7 * SCALE + i
Grid(n) == [i \in 1..n |-> Stale(i)]

----------------------------------------------------------------------------
(* BoundaryApplicator, operation by operation *)

SolverIdle ==
    /\ pc = "idle"
    /\ solver = DefaultSolver
    /\ args = [h |-> 0, t |-> 0, d |-> 0]
    /\ params = NoParams
    /\ k = 0
    /\ iteration = 0
    /\ trace = <<>>
    /\ log = <<>>
    /\ result = NoResult

\* BoundaryApplicator::new(params), and the grids the caller holds
DriverInit ==
    /\ SolverIdle
    /\ CallIdle
    /\ GuiIdle
    /\ wave_params \in ResolvedParams
    /\ current_time = 0
    /\ generation_position = 0
    /\ enabled = TRUE
    /\ velocities \in {Grid(n) : n \in 0..MaxGrid}
    /\ surface_elevations \in {Grid(n) : n \in 0..MaxGrid}
    /\ op = "new"
    /\ arg = 0
    /\ snapshot = NoStatus

\* the fields of the BoundaryApplicator
Driver ==
    [wave_params |-> wave_params, current_time |-> current_time,
     generation_position |-> generation_position, enabled |-> enabled]

\* the BoundaryApplicator's fields become those of b
Becomes(b) ==
    /\ wave_params' = b.wave_params
    /\ current_time' = b.current_time
    /\ generation_position' = b.generation_position
    /\ enabled' = b.enabled

\* mutant: replacing the parameters restarts the clock
update_parameters_RestartsClock(b, p) ==
    [b EXCEPT !.wave_params = p, !.current_time = 0]

\* BoundaryApplicator::update_parameters on the fields b
update_parameters(b, p) == [b EXCEPT !.wave_params = p]

UpdateParameters ==
    /\ \E p \in ResolvedParams : Becomes(update_parameters(Driver, p))
    /\ op' = "update_parameters"
    /\ arg' = 0
    /\ UNCHANGED <<velocities, surface_elevations, snapshot>>
    /\ UNCHANGED solverVars
    /\ UNCHANGED <<callVars, guiVars>>

SetGenerationPosition ==
    /\ \E x \in Positions : generation_position' = x /\ arg' = x
    /\ op' = "set_generation_position"
    /\ UNCHANGED <<wave_params, current_time, enabled, velocities,
                   surface_elevations, snapshot>>
    /\ UNCHANGED solverVars
    /\ UNCHANGED <<callVars, guiVars>>

\* mutant: enabling the driver restarts the clock
set_enabled_RestartsClock(b, flag) ==
    [b EXCEPT !.enabled = flag,
              !.current_time = IF flag THEN 0 ELSE b.current_time]

\* BoundaryApplicator::set_enabled on the fields b
set_enabled(b, flag) == [b EXCEPT !.enabled = flag]

SetEnabled ==
    /\ \E flag \in BOOLEAN : Becomes(set_enabled(Driver, flag))
    /\ op' = "set_enabled"
    /\ arg' = 0
    /\ UNCHANGED <<velocities, surface_elevations, snapshot>>
    /\ UNCHANGED solverVars
    /\ UNCHANGED <<callVars, guiVars>>

UpdateTime ==
    /\ \E t \in Times : current_time' = t /\ arg' = t
    /\ op' = "update_time"
    /\ UNCHANGED <<wave_params, generation_position, enabled, velocities,
                   surface_elevations, snapshot>>
    /\ UNCHANGED solverVars
    /\ UNCHANGED <<callVars, guiVars>>

\* mutant: the step is taken to be the new time
advance_time_Assigns(b, dt) == [b EXCEPT !.current_time = dt]

\* BoundaryApplicator::advance_time on the fields b
advance_time(b, dt) == [b EXCEPT !.current_time = b.current_time + dt]

AdvanceTime ==
    /\ \E dt \in TimeSteps :
          /\ Abs(current_time + dt) <= MaxTime * SCALE
          /\ Becomes(advance_time(Driver, dt))
          /\ arg' = dt
    /\ op' = "advance_time"
    /\ UNCHANGED <<velocities, surface_elevations, snapshot>>
    /\ UNCHANGED solverVars
    /\ UNCHANGED <<callVars, guiVars>>

\* mutant: reset leaves the enable flag as it is
reset_KeepsEnabled(b) == [b EXCEPT !.current_time = 0]

\* BoundaryApplicator::reset on the fields b
reset(b) == [b EXCEPT !.current_time = 0, !.enabled = TRUE]

Reset ==
    /\ wave_params' = reset(Driver).wave_params
    /\ current_time' = reset(Driver).current_time
    /\ generation_position' = reset(Driver).generation_position
    /\ enabled' = reset(Driver).enabled
    /\ op' = "reset"
    /\ arg' = 0
    /\ UNCHANGED <<velocities, surface_elevations, snapshot>>
    /\ UNCHANGED solverVars
    /\ UNCHANGED <<callVars, guiVars>>

\* mutant: the early return does not look at the grids
apply_returns_early_OnlyDisabled == ~enabled

\* the early return of both apply operations
apply_returns_early ==
    ~enabled \/ velocities = <<>> \/ surface_elevations = <<>>

\* `grid[0]` panics when the slice has no cell 0
index_out_of_bounds(grid) == 1 \notin DOMAIN grid

\* an apply operation goes past its early return and indexes an empty slice
apply_panics ==
    /\ ~apply_returns_early
    /\ (index_out_of_bounds(velocities) \/ index_out_of_bounds(surface_elevations))

\* mutant: every cell is written
write_cells_All(grid, value) == [i \in 1..Len(grid) |-> value]

\* `grid[0] = value`
write_cells(grid, value) == [grid EXCEPT ![1] = value]

\* mutant: the writes are made one grid at a time, each if its grid has a cell
Apply_PerGrid(u, eta) ==
    /\ velocities' = IF enabled /\ velocities # <<>>
                     THEN write_cells(velocities, u) ELSE velocities
    /\ surface_elevations' = IF enabled /\ surface_elevations # <<>>
                             THEN write_cells(surface_elevations, eta)
                             ELSE surface_elevations

\* the body shared by the two apply operations
Apply(u, eta) ==
    IF apply_returns_early
    THEN UNCHANGED <<velocities, surface_elevations>>
    ELSE /\ velocities' = write_cells(velocities, u)
         /\ surface_elevations' = write_cells(surface_elevations, eta)

\* mutant: an apply is one shot, the driver is disabled once it has written
ApplyBoundaryConditions_OneShot ==
    /\ Apply(boundary_velocity, boundary_surface_elevation)
    /\ op' = "apply_boundary_conditions"
    /\ arg' = 0
    /\ enabled' = (enabled /\ apply_returns_early)
    /\ UNCHANGED <<wave_params, current_time, generation_position, snapshot>>
    /\ UNCHANGED solverVars
    /\ UNCHANGED <<callVars, guiVars>>

\* BoundaryApplicator::apply_boundary_conditions
ApplyBoundaryConditions ==
    /\ Apply(boundary_velocity, boundary_surface_elevation)
    /\ op' = "apply_boundary_conditions"
    /\ arg' = 0
    /\ UNCHANGED <<wave_params, current_time, generation_position, enabled,
                   snapshot>>
    /\ UNCHANGED solverVars
    /\ UNCHANGED <<callVars, guiVars>>

\* mutant: only the velocity is ramped
ApplyRampedBoundaryConditions_VelocityOnly ==
    /\ \E ramp_duration \in RampDurations :
          /\ Apply(Mul(boundary_velocity, ramp_up_factor(ramp_duration)),
                   boundary_surface_elevation)
          /\ arg' = ramp_duration
    /\ op' = "apply_ramped_boundary_conditions"
    /\ UNCHANGED <<wave_params, current_time, generation_position, enabled,
                   snapshot>>
    /\ UNCHANGED solverVars
    /\ UNCHANGED <<callVars, guiVars>>

\* BoundaryApplicator::apply_ramped_boundary_conditions
ApplyRampedBoundaryConditions ==
    /\ \E ramp_duration \in RampDurations :
          /\ Apply(Mul(boundary_velocity, ramp_up_factor(ramp_duration)),
                   Mul(boundary_surface_elevation, ramp_up_factor(ramp_duration)))
          /\ arg' = ramp_duration
    /\ op' = "apply_ramped_boundary_conditions"
    /\ UNCHANGED <<wave_params, current_time, generation_position, enabled,
                   snapshot>>
    /\ UNCHANGED solverVars
    /\ UNCHANGED <<callVars, guiVars>>

\* mutant: the snapshot reads the wave whether or not the driver is enabled
status_IgnoresEnabled ==
    [enabled |-> enabled, current_time |-> current_time,
     generation_position |-> generation_position,
     current_velocity |->
        horizontal_velocity(wave_params, generation_position, current_time),
     current_elevation |->
        surface_elevation(wave_params, generation_position, current_time),
     wave_parameters |-> wave_params]

\* BoundaryApplicator::status: the BoundaryStatus it builds
status ==
    [enabled |-> enabled, current_time |-> current_time,
     generation_position |-> generation_position,
     current_velocity |-> boundary_velocity,
     current_elevation |-> boundary_surface_elevation,
     wave_parameters |-> wave_params]

\* let s = applicator.status();
Status ==
    /\ snapshot' = status
    /\ op' = "status"
    /\ arg' = 0
    /\ UNCHANGED <<wave_params, current_time, generation_position, enabled,
                   velocities, surface_elevations>>
    /\ UNCHANGED solverVars
    /\ UNCHANGED <<callVars, guiVars>>

DriverNext ==
    \/ UpdateParameters
    \/ SetGenerationPosition
    \/ SetEnabled
    \/ UpdateTime
    \/ AdvanceTime
    \/ Reset
    \/ ApplyBoundaryConditions
    \/ ApplyRampedBoundaryConditions

DriverSpec == DriverInit /\ [][DriverNext]_vars

----------------------------------------------------------------------------
(* a caller that takes BoundaryStatus snapshots of a driver it keeps changing *)

StatusInit ==
    /\ DriverInit
    /\ velocities = <<>>
    /\ surface_elevations = <<>>

StatusNext ==
    \/ UpdateParameters
    \/ SetGenerationPosition
    \/ SetEnabled
    \/ UpdateTime
    \/ AdvanceTime
    \/ Reset
    \/ Status

StatusSpec == StatusInit /\ [][StatusNext]_vars

----------------------------------------------------------------------------
(* parameters.rs and gui/wave_channel.rs : the water depth regime *)

\* WaveParameters::depth_wavelength_ratio
depth_wavelength_ratio(p) == Div(p.d, p.wavelength)

\* mutant: the upper threshold itself is deep water
water_depth_regime_DeepInclusive(p) ==
    LET ratio == depth_wavelength_ratio(p)
    IN  IF ratio < SCALE \div 20 THEN "Shallow"
        ELSE IF ratio >= SCALE \div 2 THEN "Deep"
        ELSE "Intermediate"

\* WaveParameters::water_depth_regime
water_depth_regime(p) ==
    LET ratio == depth_wavelength_ratio(p)
    IN  IF ratio < SCALE \div 20 THEN "Shallow"
        ELSE IF ratio > SCALE \div 2 THEN "Deep"
        ELSE "Intermediate"

\* WaveChannelApp::classify_water_depth
classify_water_depth(h, wave_length) ==
    LET ratio == Div(h, wave_length)
    IN  IF ratio < SCALE \div 20 THEN "Shallow"
        ELSE IF ratio > SCALE \div 2 THEN "Deep"
        ELSE "Intermediate"

----------------------------------------------------------------------------
(* boundary.rs : BoundaryStatus *)

\* BoundaryApplicator::boundary_velocity and boundary_surface_elevation of a
\* driver with the fields b
reads(b) ==
    IF ~b.enabled THEN <<0, 0>>
    ELSE <<horizontal_velocity(b.wave_params, b.generation_position,
                               b.current_time),
           surface_elevation(b.wave_params, b.generation_position,
                             b.current_time)>>

\* the BoundaryStatus that status() builds for a driver with the fields b
StatusOf(b) ==
    [enabled |-> b.enabled, current_time |-> b.current_time,
     generation_position |-> b.generation_position,
     current_velocity |-> reads(b)[1],
     current_elevation |-> reads(b)[2],
     wave_parameters |-> b.wave_params]

\* f64 `%`: the remainder has the sign of the dividend
Rem(a, b) == Sgn(a) * (Abs(a) % b)

\* BoundaryStatus::current_phase
current_phase(s) ==
    Mul(s.wave_parameters.k, s.generation_position)
       - Mul(s.wave_parameters.omega, s.current_time)

\* BoundaryStatus::at_wave_crest
at_wave_crest(s, tolerance) ==
    LET phase == current_phase(s)
        crest_phase == Rem(phase, TwoPi)
    IN  Abs(crest_phase) < tolerance \/ Abs(crest_phase - TwoPi) < tolerance

----------------------------------------------------------------------------
(* calls of functions that change nothing *)

\* the (d, L) the regime is asked for: on, just below and just above
\* d/L = 1/20 and d/L = 1/2, each ratio a value of the grid
RegimeWavelengths == {10000, 20000, 40000}
RegimeDepths == {400, 500, 501, 999, 1000, 1001, 1999, 2000, 2001, 4999,
                 5000, 5010, 9999, 10000, 10020, 19999, 20000, 20040, 30000}

\* the record whose depth and wavelength are d and l
WithDepthAndWavelength(d, l) == [NoParams EXCEPT !.d = d, !.wavelength = l]

\* the snapshots at_wave_crest is asked about: taken at the wave maker and
\* 15 m from it, at times around whole periods of the 4 s wave
CrestPositions == {0, 15 * SCALE}
CrestTimes == {0, 100, 3900, 4000, 4100, 7900, 8000, 8100}
CrestTolerances == {100, 200}

\* the wave numbers a caller other than the solver passes to
\* update_from_dispersion, and the waves it passes them for
WaveNumbers == {-400, 100, 380, 1000, 2000}
CallerWaves == {<<500, 4000, 2000>>, <<300, 4000, 1000>>, <<780, 2000, 1000>>}

CallInit ==
    /\ SolverIdle
    /\ DriverIdle
    /\ CallIdle
    /\ GuiIdle

\* params.water_depth_regime()
WaterDepthRegime ==
    /\ \E d \in RegimeDepths, l \in RegimeWavelengths :
          /\ called' = [fn |-> "water_depth_regime", d |-> d, wavelength |-> l]
          /\ returned' = water_depth_regime(WithDepthAndWavelength(d, l))
    /\ UNCHANGED <<solverVars, driverVars, guiVars>>

\* Self::classify_water_depth(h, wavelength)
ClassifyWaterDepth ==
    /\ \E d \in RegimeDepths, l \in RegimeWavelengths :
          /\ called' = [fn |-> "classify_water_depth", d |-> d, wavelength |-> l]
          /\ returned' = classify_water_depth(d, l)
    /\ UNCHANGED <<solverVars, driverVars, guiVars>>

\* status.at_wave_crest(tolerance)
AtWaveCrest ==
    /\ \E p \in ResolvedParams, x \in CrestPositions, t \in CrestTimes,
          tolerance \in CrestTolerances :
          LET s == StatusOf([wave_params |-> p, current_time |-> t,
                             generation_position |-> x, enabled |-> TRUE])
          IN  /\ called' = [fn |-> "at_wave_crest", status |-> s,
                            tolerance |-> tolerance]
              /\ returned' = at_wave_crest(s, tolerance)
    /\ UNCHANGED <<solverVars, driverVars, guiVars>>

\* let mut p = WaveParameters::new(h, t, d)?; p.update_from_dispersion(k);
\* p.validate()
UpdateAndValidate ==
    /\ \E w \in CallerWaves, wave_number \in WaveNumbers :
          LET p == update_from_dispersion(new(w[1], w[2], w[3]).params,
                                          wave_number)
          IN  /\ called' = [fn |-> "update_from_dispersion; validate",
                            params |-> p, wave_number |-> wave_number]
              /\ returned' = validate(p)
    /\ UNCHANGED <<solverVars, driverVars, guiVars>>

\* DispersionSolver::new().solve_wave_parameters(h, t, d)
SolveWaveParameters ==
    /\ \E w \in WaveInputs \cup CallerWaves :
          /\ called' = [fn |-> "solve_wave_parameters",
                        h |-> w[1], t |-> w[2], d |-> w[3]]
          /\ returned' = solve_wave_parameters(DefaultSolver, w[1], w[2], w[3])
    /\ UNCHANGED <<solverVars, driverVars, guiVars>>

\* the waves the kinematics are evaluated for (those whose period divides
\* 2 pi on the grid), and the points: around the wave maker and a quarter
\* and a half of each period
KinematicWaves ==
    {r.params :
        r \in {q \in {solve_wave_parameters(DefaultSolver, w[1], w[2], w[3]) :
                         w \in CallerWaves} : q.tag = "Ok"}}
KinematicPositions == {0, SCALE, 15 * SCALE}
KinematicTimes == {0, 500, 1000, 2000, 3100}

\* calc.surface_elevation(x, t) and calc.horizontal_velocity(x, t)
Kinematics ==
    /\ \E p \in KinematicWaves, x \in KinematicPositions,
          t \in KinematicTimes :
          /\ called' = [fn |-> "kinematics", params |-> p, x |-> x, t |-> t]
          /\ returned' = [eta |-> surface_elevation(p, x, t),
                          u |-> horizontal_velocity(p, x, t)]
    /\ UNCHANGED <<solverVars, driverVars, guiVars>>

\* WaveParameters::new(h, t, d)?.validate()
NewAndValidate ==
    /\ \E h \in Heights, t \in Periods, d \in Depths :
          LET r == new(h, t, d)
          IN  /\ called' = [fn |-> "new; validate", h |-> h, t |-> t, d |-> d,
                            constructed |-> r.tag]
              /\ returned' = IF r.tag = "Ok" THEN validate(r.params) ELSE r.tag
    /\ UNCHANGED <<solverVars, driverVars, guiVars>>

\* calc.validate_energy_conservation(x, t)
ValidateEnergyConservation ==
    /\ \E p \in KinematicWaves, x \in KinematicPositions,
          t \in KinematicTimes :
          /\ called' = [fn |-> "validate_energy_conservation", params |-> p,
                        x |-> x, t |-> t]
          /\ returned' = validate_energy_conservation(p, x, t)
    /\ UNCHANGED <<solverVars, driverVars, guiVars>>

CallNext ==
    \/ NewAndValidate
    \/ ValidateEnergyConservation
    \/ WaterDepthRegime
    \/ ClassifyWaterDepth
    \/ AtWaveCrest
    \/ UpdateAndValidate
    \/ SolveWaveParameters
    \/ Kinematics

CallSpec == CallInit /\ [][CallNext]_vars

----------------------------------------------------------------------------
(* gui/wave_channel.rs : calculate_wavelength_adaptive, step by step *)

\* f64::sqrt of a value of the grid: the largest r of the grid with r^2 <= x
RECURSIVE SqrtBetween(_, _, _)
SqrtBetween(n, lo, hi) ==
    IF lo >= hi THEN lo
    ELSE LET mid == (lo + hi + 1) \div 2
         IN  IF mid * mid <= n THEN SqrtBetween(n, mid, hi)
             ELSE SqrtBetween(n, lo, mid - 1)

Sqrt(x) == SqrtBetween(x * SCALE, 0, 46340)

\* `for _ in 0..20`
MaxFixedPointIterations == 20

\* period * (gravity * depth).sqrt()
shallow_water_estimate(period, depth, gravity) ==
    Mul(period, Sqrt(Mul(gravity, depth)))

\* gravity * period * period / (2.0 * PI)
deep_water_wavelength(period, gravity) ==
    Div(Mul(Mul(gravity, period), period), TwoPi)

\* one body of the loop: the next iterate from l_old
fixed_point_body(period, depth, gravity, l_old) ==
    LET kk == Div(TwoPi, l_old)
        tanh_kh == Tanh(Mul(kk, depth))
    IN  Mul(deep_water_wavelength(period, gravity), tanh_kh)

\* mutant: any change below one centimetre counts as converged
fixed_point_converged_Centimetre(change) == change < 10

\* (l_new - l_old).abs() < 1e-6: on the grid, no change at all
fixed_point_converged(change) == change < 1

\* the periods and still water levels of the GUI, and its gravity
GuiPeriods == {2000, 4000, 8000}
GuiDepths == {100, 300, 500, 1000, 1500, 2000, 5000, 10000, 20000}

\* Self::calculate_wavelength_adaptive(self.wave_period,
\*     self.still_water_level, gravity)
CallWavelengthAdaptive ==
    /\ gui_pc = "idle"
    /\ \E period \in GuiPeriods, depth \in GuiDepths :
          gui_args' = [period |-> period, depth |-> depth, gravity |-> Gravity]
    /\ gui_pc' = "estimate"
    /\ UNCHANGED <<wavelength, regime, l_new, changes, gui_result>>
    /\ UNCHANGED <<solverVars, driverVars, callVars>>

\* let wavelength = ...; let regime = Self::classify_water_depth(...)
EstimateAndClassify ==
    /\ gui_pc = "estimate"
    /\ wavelength' = shallow_water_estimate(gui_args.period, gui_args.depth,
                                            gui_args.gravity)
    /\ regime' = classify_water_depth(gui_args.depth, wavelength')
    /\ gui_pc' = "match"
    /\ UNCHANGED <<gui_args, l_new, changes, gui_result>>
    /\ UNCHANGED <<solverVars, driverVars, callVars>>

\* WaterDepthRegime::Shallow => wavelength
ReturnShallow ==
    /\ gui_pc = "match"
    /\ regime = "Shallow"
    /\ gui_result' = wavelength
    /\ gui_pc' = "done"
    /\ UNCHANGED <<gui_args, wavelength, regime, l_new, changes>>
    /\ UNCHANGED <<solverVars, driverVars, callVars>>

\* WaterDepthRegime::Deep => gravity * period * period / (2 pi)
ReturnDeep ==
    /\ gui_pc = "match"
    /\ regime = "Deep"
    /\ gui_result' = deep_water_wavelength(gui_args.period, gui_args.gravity)
    /\ gui_pc' = "done"
    /\ UNCHANGED <<gui_args, wavelength, regime, l_new, changes>>
    /\ UNCHANGED <<solverVars, driverVars, callVars>>

\* WaterDepthRegime::Intermediate => let mut l_new = deep water guess
EnterLoop ==
    /\ gui_pc = "match"
    /\ regime = "Intermediate"
    /\ l_new' = deep_water_wavelength(gui_args.period, gui_args.gravity)
    /\ changes' = <<>>
    /\ gui_pc' = "loop"
    /\ UNCHANGED <<gui_args, wavelength, regime, gui_result>>
    /\ UNCHANGED <<solverVars, driverVars, callVars>>

\* one pass of `for _ in 0..20 { ... if ... < 1e-6 { break; } }`; on the
\* break the function returns l_new
LoopBody ==
    /\ gui_pc = "loop"
    /\ Len(changes) < MaxFixedPointIterations
    /\ l_new' = fixed_point_body(gui_args.period, gui_args.depth,
                                 gui_args.gravity, l_new)
    /\ changes' = Append(changes, Abs(l_new' - l_new))
    /\ IF fixed_point_converged(Abs(l_new' - l_new))
       THEN gui_pc' = "done" /\ gui_result' = l_new'
       ELSE gui_pc' = "loop" /\ UNCHANGED gui_result
    /\ UNCHANGED <<gui_args, wavelength, regime>>
    /\ UNCHANGED <<solverVars, driverVars, callVars>>

\* the range 0..20 is used up: the function returns the last l_new
LoopExhausted ==
    /\ gui_pc = "loop"
    /\ Len(changes) >= MaxFixedPointIterations
    /\ gui_result' = l_new
    /\ gui_pc' = "done"
    /\ UNCHANGED <<gui_args, wavelength, regime, l_new, changes>>
    /\ UNCHANGED <<solverVars, driverVars, callVars>>

WavelengthInit ==
    /\ SolverIdle
    /\ DriverIdle
    /\ CallIdle
    /\ GuiIdle

WavelengthNext ==
    \/ CallWavelengthAdaptive
    \/ EstimateAndClassify
    \/ ReturnShallow
    \/ ReturnDeep
    \/ EnterLoop
    \/ LoopBody
    \/ LoopExhausted

\* the function is sequential code: a step that can be taken is taken
WavelengthSpec ==
    WavelengthInit /\ [][WavelengthNext]_vars /\ WF_vars(WavelengthNext)

----------------------------------------------------------------------------
(* properties of the solver *)

AllPositive == args.h > 0 /\ args.t > 0 /\ args.d > 0
Constructed == pc \notin {"idle", "new"}

\* H/d > 0.78, exactly, for d > 0
Breaking == 100 * args.h > 78 * args.d

C2_OkIsPositive ==
    result.tag = "Ok" =>
      /\ result.params.omega > 0
      /\ result.params.k > 0
      /\ result.params.c > 0
      /\ result.params.wavelength > 0

\* the case of C2: an Ok result after more than one Newton step
C2_Witness ==
    pc = "done" /\ result.tag = "Ok" /\ iteration >= 2

\* the dispersion residual of the returned wave number
Residual == dispersion_function(solver, result.params.k, result.params.omega,
                                result.params.d)

Steps ==
    IF trace # <<>> /\ trace[Len(trace)] = "DerivativeUnderflow"
    THEN Len(trace) - 1 ELSE Len(trace)

AllContinue(n) == \A i \in 1..n : trace[i] = "Continue"

\* C4: solve_wave_number ends after at most max_iterations Newton steps in
\* exactly one of: a converged k at the first step with |delta k| < tolerance,
\* a derivative-underflow error at the first body with |df/dk| < tolerance
\* (before that step is taken), or a no-convergence error after exactly
\* max_iterations steps none of which converged or underflowed.
C4_NewtonOutcomes ==
    /\ iteration = Len(trace)
    /\ Steps <= solver.max_iterations
    /\ AllContinue(Len(trace) - 1)
    /\ pc = "solve" => AllContinue(Len(trace))
    /\ pc \in {"update", "validate"} =>
          trace # <<>> /\ trace[Len(trace)] = "Converged"
    /\ (pc = "done" /\ new(args.h, args.t, args.d).tag = "Ok") =>
          /\ result.tag \in {"Ok", "InvariantViolation", "DerivativeUnderflow",
                             "NoConvergence"}
          /\ result.tag \in {"Ok", "InvariantViolation"} <=>
                (trace # <<>> /\ trace[Len(trace)] = "Converged")
          /\ result.tag = "DerivativeUnderflow" <=>
                (trace # <<>> /\ trace[Len(trace)] = "DerivativeUnderflow")
          /\ result.tag = "NoConvergence" <=>
                (Len(trace) = solver.max_iterations /\ AllContinue(Len(trace)))

\* the case of C4: a derivative underflow met only after a step that continued
C4_Witness ==
    /\ pc = "done" /\ Len(trace) >= 2
    /\ result.tag = "DerivativeUnderflow"

\* C5 as claimed: the wave number solve_wave_number returns is never below
\* the tolerance; stated for the default gravity.
C5_ReturnedAtLeastTolerance ==
    (/\ solver.gravity = Gravity
     /\ (pc \in {"update", "validate"} \/ result.tag = "Ok")) =>
      k >= solver.tolerance

\* C5 as the code has it: the iterate is clamped to be >= tolerance after
\* every step on which convergence is not detected; the converged wave
\* number is returned as computed.
C5_ContinuingIterateClamped ==
    (pc = "solve" /\ iteration >= 1) => k >= solver.tolerance

\* the case of C5: the loop continues with an iterate the clamp has raised
C5_Witness ==
    /\ pc = "solve" /\ iteration >= 1 /\ k = solver.tolerance
    /\ newton_body_NoClamp(solver, k, params.omega, args.d).k < solver.tolerance

----------------------------------------------------------------------------
(* properties of the boundary driver *)

ApplyOps == {"apply_boundary_conditions", "apply_ramped_boundary_conditions"}

\* C6: whenever enabled is false, boundary_velocity, boundary_surface_elevation
\* and boundary_flux are all exactly 0, whatever the time, the generation
\* position and the wave parameters are.
C6_DisabledReadsZero ==
    ~enabled =>
      /\ boundary_velocity = 0
      /\ boundary_surface_elevation = 0
      /\ boundary_flux = 0

\* the case of C6: a disabled driver whose wave is not zero at its time and place
C6_Witness ==
    /\ ~enabled
    /\ current_time # 0
    /\ generation_position # 0
    /\ horizontal_velocity(wave_params, generation_position, current_time) # 0
    /\ surface_elevation(wave_params, generation_position, current_time) # 0

\* C7: with the driver enabled and both grids non-empty, either apply
\* operation sets cell 0 of the two grids to the driver's current (ramped)
\* boundary velocity and elevation and leaves every other cell and both
\* lengths as they were, whatever the two lengths are.
C7_ApplyWritesCellZeroOnly ==
    [][(/\ op' \in ApplyOps
        /\ enabled /\ velocities # <<>> /\ surface_elevations # <<>>)
       => /\ Len(velocities') = Len(velocities)
          /\ Len(surface_elevations') = Len(surface_elevations)
          /\ \A i \in 2..Len(velocities) : velocities'[i] = velocities[i]
          /\ \A i \in 2..Len(surface_elevations) :
                surface_elevations'[i] = surface_elevations[i]
          /\ op' = "apply_boundary_conditions" =>
                /\ velocities'[1] = boundary_velocity
                /\ surface_elevations'[1] = boundary_surface_elevation
          /\ op' = "apply_ramped_boundary_conditions" =>
                \E tau \in RampDurations :
                   /\ velocities'[1] = Mul(boundary_velocity, ramp_up_factor(tau))
                   /\ surface_elevations'[1] =
                         Mul(boundary_surface_elevation, ramp_up_factor(tau))
      ]_vars

\* the case of C7: grids of different lengths just after an apply that wrote
\* their first cells
C7_Witness ==
    /\ op = "apply_boundary_conditions" /\ enabled
    /\ Len(velocities) = 2 /\ Len(surface_elevations) = 1
    /\ current_time # 0
    /\ velocities[1] = boundary_velocity /\ velocities[1] # Stale(1)
    /\ surface_elevations[1] = boundary_surface_elevation
    /\ velocities[2] = Stale(2)

\* C8: with the driver disabled, or with either grid empty, the apply
\* operations write no cell of either grid (and change nothing else).
C8_ApplyNoOp ==
    [][(/\ op' \in ApplyOps
        /\ (~enabled \/ velocities = <<>> \/ surface_elevations = <<>>))
       => UNCHANGED <<velocities, surface_elevations, wave_params,
                      current_time, generation_position, enabled>>
      ]_vars

\* the case of C8: a disabled driver's apply has left an earlier write in cell 0
C8_Witness ==
    /\ op \in ApplyOps /\ ~enabled
    /\ velocities # <<>> /\ surface_elevations # <<>>
    /\ velocities[1] \notin {0, Stale(1)}
    /\ surface_elevations[1] \notin {0, Stale(1)}

\* C9: from any reachable state reset() yields current_time = 0 and
\* enabled = true, and a second reset changes nothing more.
C9_ResetIdempotent ==
    /\ reset(Driver).current_time = 0
    /\ reset(Driver).enabled
    /\ reset(reset(Driver)) = reset(Driver)
    /\ op = "reset" => (current_time = 0 /\ enabled)

\* the case of C9: a reset of a driver that has been moved and has written a grid
C9_Witness ==
    /\ op = "reset"
    /\ current_time = 0 /\ enabled
    /\ generation_position # 0
    /\ velocities # <<>> /\ velocities[1] # Stale(1)

\* C10: after reset() the triple (current_time, generation_position, enabled)
\* is that of a newly constructed applicator, (0, 0, true).
C10_ResetRestoresInitial ==
    op = "reset" =>
      /\ current_time = 0
      /\ generation_position = 0
      /\ enabled = TRUE

\* C11: update_parameters changes only the wave parameters: current_time,
\* enabled and generation_position are after the call what they were before.
C11_UpdateParametersFrame ==
    [][op' = "update_parameters"
       => /\ wave_params' \in ResolvedParams
          /\ current_time' = current_time
          /\ enabled' = enabled
          /\ generation_position' = generation_position
      ]_vars

\* the case of C11: parameters replaced in a disabled driver that has been
\* moved in time and place
C11_Witness ==
    /\ op = "update_parameters"
    /\ current_time # 0 /\ ~enabled /\ generation_position # 0

\* C12: set_enabled changes neither current_time, generation_position nor the
\* parameters; advance_time, update_time and set_generation_position do not
\* change enabled; so disabling an enabled driver and enabling it again, with
\* nothing in between, gives back the boundary velocity and elevation it
\* reported before.
C12_EnableOrthogonalToTime ==
    /\ [](/\ reads(Driver) = <<boundary_velocity, boundary_surface_elevation>>
          /\ enabled =>
                /\ reads(set_enabled(Driver, FALSE)) = <<0, 0>>
                /\ reads(set_enabled(set_enabled(Driver, FALSE), TRUE))
                      = <<boundary_velocity, boundary_surface_elevation>>)
    /\ [][/\ op' = "set_enabled" =>
                /\ Driver' = set_enabled(Driver, enabled')
                /\ UNCHANGED <<current_time, generation_position, wave_params>>
          /\ op' \in {"advance_time", "update_time", "set_generation_position"}
                => enabled' = enabled
         ]_vars

\* the case of C12: a driver enabled by set_enabled away from time 0 and
\* position 0, where its wave is not zero
C12_Witness ==
    /\ op = "set_enabled" /\ enabled
    /\ current_time # 0 /\ generation_position # 0
    /\ boundary_velocity # 0 /\ boundary_surface_elevation # 0

\* the driver operations that may set the clock back
ClockSetters == {"update_time", "reset"}

\* C13: advance_time(dt) sets current_time to the previous current_time + dt,
\* and over advance_time with dt >= 0, set_enabled, set_generation_position,
\* update_parameters and the apply operations (no update_time, no reset)
\* current_time never decreases.
C13_AdvanceTimeMonotone ==
    [][/\ op' = "advance_time" =>
             /\ current_time' = current_time + arg'
             /\ Driver' = advance_time(Driver, arg')
       /\ (op' \notin ClockSetters /\ (op' = "advance_time" => arg' >= 0))
             => current_time' >= current_time
      ]_vars

\* the case of C13: a second forward step of the clock, after a write to the grid
C13_Witness ==
    /\ op = "advance_time" /\ arg = SCALE
    /\ current_time = 2 * SCALE
    /\ velocities # <<>> /\ velocities[1] # Stale(1)

\* 0.5 (1 - cos(pi t / tau)), the raised cosine
RaisedCosine(t, tau) == Mul(SCALE \div 2, SCALE - Cos(Mul(PI, Div(t, tau))))

\* C14: ramp_up_factor(tau) is 0 if the driver is disabled (even for
\* tau <= 0); else 1 if tau <= 0; else, if t < tau, the raised cosine, which
\* is exactly 0 at t = 0; else 1.  For an enabled driver at t >= 0 it lies in
\* [0, 1], and it is 1 for every t >= tau.
C14_RampUpFactorCases ==
    \A tau \in RampDurations :
       /\ ~enabled => ramp_up_factor(tau) = 0
       /\ (enabled /\ tau <= 0) => ramp_up_factor(tau) = SCALE
       /\ (enabled /\ tau > 0 /\ current_time < tau) =>
             /\ ramp_up_factor(tau) = RaisedCosine(current_time, tau)
             /\ current_time = 0 => ramp_up_factor(tau) = 0
       /\ (enabled /\ tau > 0 /\ current_time >= tau) =>
             ramp_up_factor(tau) = SCALE
       /\ (enabled /\ current_time >= 0) =>
             /\ 0 <= ramp_up_factor(tau) /\ ramp_up_factor(tau) <= SCALE
             /\ current_time >= tau => ramp_up_factor(tau) = SCALE

\* the case of C14: a ramped apply half way up a ramp of 2 s
C14_Witness ==
    /\ op = "apply_ramped_boundary_conditions" /\ arg = 2 * SCALE
    /\ enabled /\ current_time = SCALE
    /\ ramp_up_factor(arg) = SCALE \div 2
    /\ velocities # <<>> /\ velocities[1] # Stale(1)

\* C15: for an enabled driver and non-empty grids, the ramped apply with
\* tau > 0 at t = 0 writes exactly 0 into cell 0 of both grids, and whenever
\* t >= tau or tau <= 0 it leaves the grids as apply_boundary_conditions
\* would leave them from the same state.
C15_RampedApplyEnds ==
    [][(/\ op' = "apply_ramped_boundary_conditions"
        /\ enabled /\ velocities # <<>> /\ surface_elevations # <<>>)
       => /\ (arg' > 0 /\ current_time = 0) =>
                /\ velocities'[1] = 0
                /\ surface_elevations'[1] = 0
          /\ (current_time >= arg' \/ arg' <= 0) =>
                /\ velocities' = write_cells(velocities, boundary_velocity)
                /\ surface_elevations' =
                      write_cells(surface_elevations, boundary_surface_elevation)
      ]_vars

\* the case of C15: a ramped apply at t = 0 has put 0 into both first cells
\* where the wave itself is not 0
C15_Witness ==
    /\ op = "apply_ramped_boundary_conditions" /\ arg > 0
    /\ enabled /\ current_time = 0
    /\ boundary_velocity # 0 /\ boundary_surface_elevation # 0
    /\ Len(velocities) = 2 /\ Len(surface_elevations) = 1
    /\ velocities[1] = 0 /\ surface_elevations[1] = 0
    /\ velocities[2] = Stale(2)

\* C16: status() returns a snapshot whose enabled, current_time,
\* generation_position, current_velocity, current_elevation and
\* wave_parameters are what is_enabled(), current_time(), the generation
\* position, boundary_velocity(), boundary_surface_elevation() and
\* parameters() report in the state of the call, and no later operation on
\* the driver changes a snapshot already taken.
C16_StatusIsSnapshot ==
    [][/\ op' = "status" =>
             /\ snapshot'.enabled = enabled
             /\ snapshot'.current_time = current_time
             /\ snapshot'.generation_position = generation_position
             /\ snapshot'.current_velocity = boundary_velocity
             /\ snapshot'.current_elevation = boundary_surface_elevation
             /\ snapshot'.wave_parameters = wave_params
             /\ UNCHANGED <<wave_params, current_time, generation_position,
                            enabled>>
       /\ op' # "status" => snapshot' = snapshot
      ]_vars

\* the case of C16: a snapshot of a running wave, kept while the driver was
\* given other parameters, another time and was disabled
C16_Witness ==
    /\ op # "status"
    /\ snapshot.wave_parameters \in ResolvedParams
    /\ snapshot.enabled /\ ~enabled
    /\ snapshot.current_velocity # 0 /\ snapshot.current_elevation # 0
    /\ snapshot.current_time # current_time
    /\ snapshot.wave_parameters # wave_params

\* the simulation durations should_generate_waves is asked about
Durations == {-SCALE, 0, SCALE, 2 * SCALE}

\* C17: no operation of the boundary driver panics or returns an error: in
\* every reachable state neither apply operation indexes an empty grid,
\* and every read, status included, yields a number (a truth value for
\* should_generate_waves) for negative, zero and positive arguments.
C17_DriverNeverFails ==
    /\ ~apply_panics
    /\ boundary_velocity \in Int
    /\ boundary_surface_elevation \in Int
    /\ boundary_flux \in Int
    /\ \A tau \in RampDurations : ramp_up_factor(tau) \in Int
    /\ \A duration \in Durations : should_generate_waves(duration) \in BOOLEAN
    /\ status.current_velocity \in Int /\ status.current_elevation \in Int

\* the case of C17: a ramped apply with a negative duration, at a negative
\* time, on an empty and a non-empty grid
C17_Witness ==
    /\ op = "apply_ramped_boundary_conditions" /\ arg < 0
    /\ enabled /\ current_time < 0
    /\ velocities = <<>> /\ surface_elevations # <<>>

\* the steps of solve_wave_parameters in the order of its code
StepOrder == <<"new", "solve_wave_number", "update_from_dispersion", "validate">>

IsPrefix(s, t) == Len(s) <= Len(t) /\ \A i \in 1..Len(s) : s[i] = t[i]

\* the steps run by a call that has returned with the tag
StepsRunFor(tag) ==
    CASE tag \in {"InvalidInput", "BreakingRisk"} -> 1
      [] tag \in {"DerivativeUnderflow", "NoConvergence"} -> 2
      [] OTHER -> 4

\* C18: a call of solve_wave_parameters runs construct, Newton solve,
\* update_from_dispersion, validate in this order; the first failing step's
\* error is returned and no later step runs; update_from_dispersion runs at
\* most once and only after construction and the Newton solve have both
\* succeeded; and no WaveParameters whose k, c or wavelength is still 0 is
\* returned.
C18_StepsInOrder ==
    /\ IsPrefix(log, StepOrder)
    /\ pc = "done" <=> result # NoResult
    /\ pc = "done" =>
          /\ result.tag \in {"Ok", "InvalidInput", "BreakingRisk",
                             "DerivativeUnderflow", "NoConvergence",
                             "InvariantViolation"}
          /\ Len(log) = StepsRunFor(result.tag)
          /\ result.tag \in {"InvalidInput", "BreakingRisk"} =>
                result = new(args.h, args.t, args.d)
          /\ result.tag \in {"DerivativeUnderflow", "NoConvergence"} =>
                /\ new(args.h, args.t, args.d).tag = "Ok"
                /\ trace = <<>> \/ trace[Len(trace)] # "Converged"
          /\ result.tag = "InvariantViolation" => validate(params) # "Ok"
    /\ Len(log) >= 3 =>
          /\ new(args.h, args.t, args.d).tag = "Ok"
          /\ trace # <<>> /\ trace[Len(trace)] = "Converged"
          /\ params = update_from_dispersion(new(args.h, args.t, args.d).params, k)
    /\ result.tag = "Ok" =>
          /\ result.params = params
          /\ result.params.k # 0
          /\ result.params.c # 0
          /\ result.params.wavelength # 0
    /\ result.tag # "Ok" => result.params = NoParams

\* the case of C18: the Newton solve failed after a successful construction,
\* and the call returned its error without completing the parameters
C18_Witness ==
    /\ pc = "done" /\ result = Err("NoConvergence")
    /\ log = <<"new", "solve_wave_number">>
    /\ iteration >= 2
    /\ params.omega > 0 /\ params.k = 0 /\ params.wavelength = 0

\* C19: should_generate_waves(T_sim) is true exactly when the driver is
\* enabled and current_time < T_sim, strictly: it is false at
\* current_time = T_sim, and false for every T_sim when the driver is disabled.
C19_ShouldGenerateWaves ==
    \A duration \in Durations :
       /\ ~enabled => ~should_generate_waves(duration)
       /\ current_time = duration => ~should_generate_waves(duration)
       /\ current_time > duration => ~should_generate_waves(duration)
       /\ (enabled /\ current_time < duration) => should_generate_waves(duration)

\* the case of C19: an enabled driver whose clock has reached one simulation
\* duration and not yet a longer one
C19_Witness ==
    /\ op = "advance_time" /\ enabled /\ current_time = SCALE
    /\ ~should_generate_waves(SCALE)
    /\ should_generate_waves(2 * SCALE)

\* C20: in every state boundary_flux() is boundary_velocity() times the depth
\* d of the parameters the driver holds at that moment: the new depth as soon
\* as update_parameters has returned, and 0 when the driver is disabled.
C20_FluxIsVelocityTimesDepth ==
    /\ boundary_flux = Mul(boundary_velocity, wave_params.d)
    /\ ~enabled => boundary_flux = 0

\* the case of C20: the flux of a running wave just after update_parameters
\* has changed the depth from that of an earlier snapshot
C20_Witness ==
    /\ op = "update_parameters" /\ enabled
    /\ snapshot.wave_parameters \in ResolvedParams
    /\ snapshot.wave_parameters.d # wave_params.d
    /\ boundary_velocity # 0
    /\ boundary_flux = Mul(boundary_velocity, wave_params.d)
    /\ boundary_flux # Mul(boundary_velocity, snapshot.wave_parameters.d)

----------------------------------------------------------------------------
(* properties of the functions that change nothing *)

\* C21: water_depth_regime puts a wave into exactly one regime by d/L:
\* Shallow iff d/L < 1/20, Deep iff d/L > 1/2, Intermediate otherwise, so
\* d/L = 1/20 and d/L = 1/2 are both Intermediate; classify_water_depth of
\* the GUI gives the same regime for the same depth and wavelength.
C21_RegimeByRatio ==
    called.fn \in {"water_depth_regime", "classify_water_depth"} =>
       /\ returned \in {"Shallow", "Intermediate", "Deep"}
       /\ returned = "Shallow" <=> 20 * called.d < called.wavelength
       /\ returned = "Deep" <=> 2 * called.d > called.wavelength
       /\ returned = "Intermediate" <=>
             (20 * called.d >= called.wavelength /\ 2 * called.d <= called.wavelength)
       /\ water_depth_regime(WithDepthAndWavelength(called.d, called.wavelength))
             = classify_water_depth(called.d, called.wavelength)

\* the case of C21: water_depth_regime at d/L exactly 1/2
C21_Witness ==
    /\ called.fn = "water_depth_regime"
    /\ 2 * called.d = called.wavelength
    /\ returned = "Intermediate"

\* the phase is within the tolerance of a whole multiple of 2 pi
NearCrest(phase, tolerance) ==
    \E n \in -3..3 : Abs(phase - n * TwoPi) < tolerance

\* C22: a BoundaryStatus taken at a time t >= 0 reports at_wave_crest(tol)
\* whenever its phase k x0 - omega t is within tol of a whole multiple of
\* 2 pi, on either side of the multiple, for negative and positive phase.
C22_CrestWithinTolerance ==
    (/\ called.fn = "at_wave_crest"
     /\ called.status.current_time >= 0
     /\ NearCrest(current_phase(called.status), called.tolerance))
       => returned = TRUE

\* the record is the Ok result of solve_wave_parameters for some solver
FromSolver(p) ==
    \E s \in Solvers \cup {DefaultSolver} :
       solve_wave_parameters(s, p.h, p.period, p.d) = Ok(p)

\* C23 as claimed: a record that validate() accepts has been returned by
\* solve_wave_parameters.
C23_ValidOnlyFromSolver ==
    (called.fn = "update_from_dispersion; validate" /\ returned = "Ok")
       => FromSolver(called.params)

\* C23 as the code has it: validate() accepts every record made by
\* WaveParameters::new and update_from_dispersion with a positive wave
\* number, whether or not the wave number solves the dispersion relation;
\* it rejects the record only for a wave number <= 0.
C23_ValidWithoutSolver ==
    called.fn = "update_from_dispersion; validate" =>
       /\ called.params.c = Div(called.params.omega, called.wave_number)
       /\ called.wave_number > 0 => returned = "Ok"
       /\ called.wave_number <= 0 => returned = "InvariantViolation"

\* the case of C23: validate() accepts a record no solver returns, whose wave
\* number leaves a residual in the dispersion relation
C23_Witness ==
    /\ called.fn = "update_from_dispersion; validate"
    /\ returned = "Ok"
    /\ ~FromSolver(called.params)
    /\ validate_dispersion(DefaultSolver, called.params.k, called.params.omega,
                           called.params.d) = "ResidualTooLarge"

\* the call solve_wave_parameters(1.0, 8.0, 20.0) of test_deep_water_limit
DeepBaseline ==
    /\ called.fn = "solve_wave_parameters"
    /\ called.h = SCALE /\ called.t = 8 * SCALE /\ called.d = 20 * SCALE

\* g T / (2 pi), the deep water phase speed
DeepWaterSpeed(t) == Div(Mul(Gravity, t), TwoPi)

\* |c - g T / (2 pi)| is less than a tenth of g T / (2 pi)
SpeedWithinTenth(p) ==
    10 * Abs(p.c - DeepWaterSpeed(p.period)) < DeepWaterSpeed(p.period)

\* C24 as claimed: solve_wave_parameters(1.0, 8.0, 20.0) succeeds with c
\* within 10% of g T / (2 pi) and with d/L > 0.5, a Deep wave.
C24_DeepBaselineIsDeep ==
    DeepBaseline =>
       /\ returned.tag = "Ok"
       /\ SpeedWithinTenth(returned.params)
       /\ 2 * returned.params.d > returned.params.wavelength
       /\ water_depth_regime(returned.params) = "Deep"

\* C24 as the code has it: the call succeeds with c within 10% of
\* g T / (2 pi), and the wave it resolves has 1/20 <= d/L <= 1/2 (d/L is
\* about 0.22): water_depth_regime() is Intermediate.
C24_DeepBaselineIsIntermediate ==
    DeepBaseline =>
       /\ returned.tag = "Ok"
       /\ SpeedWithinTenth(returned.params)
       /\ 20 * returned.params.d >= returned.params.wavelength
       /\ 2 * returned.params.d <= returned.params.wavelength
       /\ water_depth_regime(returned.params) = "Intermediate"

\* the case of C24: the deep baseline has been solved
C24_Witness ==
    /\ DeepBaseline
    /\ returned.tag = "Ok"
    /\ returned.params.k > 0
    /\ returned.params.wavelength > 4 * returned.params.d
    /\ returned.params.c < DeepWaterSpeed(returned.params.period)

\* two values of the grid that differ by no more than one unit of the last
\* digit (L = 2 pi / k is cut to the grid, so k * L is 2 pi only to within
\* the rounding)
WithinRounding(a, b) == Abs(a - b) <= 1

\* the surface elevation and the velocity of a record at a point
KinematicsAt(p, x, t) ==
    [eta |-> surface_elevation(p, x, t), u |-> horizontal_velocity(p, x, t)]

C29_FreshRecordInvalid ==
    called.fn = "new; validate" =>
        /\ returned # "Ok"
        /\ (called.h > 0 /\ called.t > 0 /\ called.d > 0
            /\ 100 * called.h <= 78 * called.d)
           => /\ called.constructed = "Ok"
              /\ new(called.h, called.t, called.d).params.k = 0
              /\ returned = "InvariantViolation"

\* the case of C29: new accepted its arguments and validate was called on
\* the record it returned
C29_Witness ==
    /\ called.fn = "new; validate"
    /\ called.constructed = "Ok"
    /\ called.h > 0 /\ called.t > 0 /\ called.d > 0
    /\ returned = "InvariantViolation"

\* the phase k x - omega t of a record at a point
PhaseAt(p, x, t) == Mul(p.k, x) - Mul(p.omega, t)

\* C30: where the phase makes cos(k x - omega t) = 0, as it does at x = 0,
\* t = T/4 for every resolved wave, the velocity and the elevation are 0, the
\* relative error against g H^2 / 8 is 1, and validate_energy_conservation
\* returns the energy drift error.
C30_EnergyDriftAtZeroCrossing ==
    called.fn = "validate_energy_conservation" =>
        LET p == called.params
            x == called.x
            t == called.t
        IN  /\ (x = 0 /\ 4 * t = p.period) => Cos(PhaseAt(p, x, t)) = 0
            /\ Cos(PhaseAt(p, x, t)) = 0
               => /\ horizontal_velocity(p, x, t) = 0
                  /\ surface_elevation(p, x, t) = 0
                  /\ returned = [tag |-> "EnergyDrift", error |-> SCALE]

\* the case of C30: the check was made a quarter period after the start at
\* the wave maker
C30_Witness ==
    /\ called.fn = "validate_energy_conservation"
    /\ called.x = 0
    /\ 4 * called.t = called.params.period
    /\ called.params.k > 0 /\ called.params.h > 0
    /\ returned.tag = "EnergyDrift"

----------------------------------------------------------------------------
(* properties of the driver, continued *)

\* the values the three reads must give for a driver with the fields b
FromFields(b) ==
    LET u == IF b.enabled
             THEN horizontal_velocity(b.wave_params, b.generation_position,
                                      b.current_time)
             ELSE 0
    IN  [velocity |-> u,
         elevation |-> IF b.enabled
                       THEN surface_elevation(b.wave_params,
                                              b.generation_position,
                                              b.current_time)
                       ELSE 0,
         flux |-> IF b.enabled THEN Mul(u, b.wave_params.d) ELSE 0]

\* C26: in every state the three reads give the values of the parameters,
\* position and time the driver has in that state; update_parameters,
\* set_generation_position, update_time and advance_time have put their
\* argument there when they return; and an apply that writes writes the values
\* of the fields as they are when it is called.
C26_ReadsFollowLastMutation ==
    /\ [](/\ boundary_velocity = FromFields(Driver).velocity
          /\ boundary_surface_elevation = FromFields(Driver).elevation
          /\ boundary_flux = FromFields(Driver).flux)
    /\ [][/\ op' = "update_parameters" => wave_params' \in ResolvedParams
          /\ op' = "set_generation_position" => generation_position' = arg'
          /\ op' = "update_time" => current_time' = arg'
          /\ op' = "advance_time" => current_time' = current_time + arg'
          /\ (op' = "apply_boundary_conditions" /\ ~apply_returns_early)
             => /\ velocities'[1] = FromFields(Driver).velocity
                /\ surface_elevations'[1] = FromFields(Driver).elevation
         ]_vars

\* the case of C26: a mutator has just changed what the reads return (the
\* clock was moved off a crest, where the elevation differs from the one at
\* construction)
C26_Witness ==
    /\ op \in {"update_time", "advance_time"}
    /\ enabled
    /\ current_time # 0
    /\ boundary_surface_elevation # surface_elevation(wave_params, 0, 0)
    /\ boundary_velocity # 0

\* C28: the values read from the driver are functions of current_time,
\* generation_position, enabled and the wave parameters alone, and an apply
\* operation leaves those four as they were, so a read repeated with no
\* mutator in between returns the same value.
C28_ReadsAndAppliesFrame ==
    /\ [](/\ reads(Driver) = <<boundary_velocity, boundary_surface_elevation>>
          /\ boundary_flux = IF enabled
                             THEN Mul(reads(Driver)[1], wave_params.d)
                             ELSE 0)
    /\ [][op' \in ApplyOps
          => /\ Driver' = Driver
             /\ \A tau \in RampDurations :
                   should_generate_waves(tau)' = should_generate_waves(tau)
         ]_vars

\* the case of C28: an apply has written into the grids of a driver that was
\* moved in time and place, and its reads are not zero
C28_Witness ==
    /\ op \in ApplyOps
    /\ enabled
    /\ current_time # 0 /\ generation_position # 0
    /\ velocities # <<>> /\ surface_elevations # <<>>
    /\ velocities[1] # Stale(1)
    /\ boundary_velocity # 0

----------------------------------------------------------------------------
(* properties of the GUI's wavelength *)

\* the n-th iterate of L <- (g T^2 / (2 pi)) tanh(2 pi d / L) from the deep
\* water guess
RECURSIVE Iterate(_)
Iterate(n) ==
    IF n = 0 THEN deep_water_wavelength(gui_args.period, gui_args.gravity)
    ELSE fixed_point_body(gui_args.period, gui_args.depth, gui_args.gravity,
                          Iterate(n - 1))

\* what calculate_wavelength_adaptive has done when it returns
WavelengthContract ==
    /\ Len(changes) <= MaxFixedPointIterations
    /\ gui_pc \in {"match", "loop", "done"} =>
          /\ gui_args.period > 0 /\ gui_args.depth > 0
          /\ wavelength = Mul(gui_args.period,
                              Sqrt(Mul(gui_args.gravity, gui_args.depth)))
          /\ regime = IF 20 * gui_args.depth < wavelength THEN "Shallow"
                      ELSE IF 2 * gui_args.depth > wavelength THEN "Deep"
                      ELSE "Intermediate"
    /\ (gui_pc = "done" /\ regime = "Shallow") =>
          changes = <<>> /\ gui_result = wavelength
    /\ (gui_pc = "done" /\ regime = "Deep") =>
          /\ changes = <<>>
          /\ gui_result = Div(Mul(Mul(gui_args.gravity, gui_args.period),
                                  gui_args.period), TwoPi)
    /\ (gui_pc = "done" /\ regime = "Intermediate") =>
          LET n == Len(changes)
          IN  /\ n \in 1..20
              /\ \A i \in 1..n : changes[i] = Abs(Iterate(i) - Iterate(i - 1))
              /\ \A i \in 1..(n - 1) : changes[i] >= 1
              /\ changes[n] < 1 \/ n = 20
              /\ gui_result = Iterate(n)

\* C27: calculate_wavelength_adaptive returns for every positive period and
\* depth; its branch is the regime of the shallow water estimate T sqrt(g d);
\* the Shallow branch returns that estimate, the Deep branch g T^2 / (2 pi),
\* and the Intermediate branch runs the loop body at most 20 times, stops at
\* the first body whose change is below the tolerance, and otherwise returns
\* the 20th iterate.
C27_WavelengthTerminates ==
    /\ []WavelengthContract
    /\ <>(gui_pc = "done")

\* the case of C27: the loop ran 20 times without converging and the 20th
\* iterate was returned
C27_Witness ==
    /\ gui_pc = "done"
    /\ regime = "Intermediate"
    /\ Len(changes) = MaxFixedPointIterations
    /\ changes[MaxFixedPointIterations] >= 1
    /\ gui_result = l_new

====
